---- MODULE Spec2Model ----
(***************************************************************************)
(* The glyph Bezier editor (class GlyphBezierEditor) and the element       *)
(* dragger (class ProductImageDragger) of the Font Proof marketing site.   *)
(*                                                                         *)
(* The repository holds three copies of the editor and two of the dragger: *)
(*   "site"    js/site.js                  (radius 8, preview, no co-move)  *)
(*   "comove"  unnamed/part_000, 1..621    (radius 4, preview, co-move)     *)
(*   "legacy"  unnamed/part_000, 622..1048 (radius 8, no preview)           *)
(* The variable build says which copy the page runs.                       *)
(*                                                                         *)
(* A JavaScript Number is modelled as an exact rational <<n, d>>, d > 0,   *)
(* in lowest terms. Command indices are 1-based (cmdIndex i here is        *)
(* cmdIndex i-1 in the code).                                              *)
(***************************************************************************)
EXTENDS Integers, Sequences, FiniteSets, TLC

VARIABLES
    build,              \* which copy of the code the page runs
    pc,                 \* position of setup(): constructed, loading, ready, failed, threw
    showControlPoints,  \* this.showControlPoints
    glyphSize,          \* this.glyphSize
    scale,              \* this.scale
    offsetX,            \* this.offsetX
    offsetY,            \* this.offsetY
    glyph,              \* this.glyph (its path is this.originalPath)
    editableCommands,   \* this.editableCommands
    isDragging,         \* this.isDragging
    dragPoint,          \* this.dragPoint
    previewCanvas,      \* this.previewCanvas is set
    listeners,          \* the event listeners registered so far
    cursor,             \* this.canvas.style.cursor
    canvas,             \* what the editor canvas shows
    preview,            \* what the preview canvas shows
    moves,              \* number of drag moves handled so far
    mouseAt,            \* getMousePos(e) of the drag move just handled, if any
    dragger,            \* the closure variables of makeDraggable(element)
    transform,          \* the element's translation (element.style.transform)
    classList,          \* the element's CSS classes
    grab,               \* pointer position and translation at the last drag start
    pointer,            \* pointer position of the last dragStart or drag event
    events,             \* number of dragger events handled so far
    last                \* the handler that ran last

editorVars == <<build, pc, showControlPoints, glyphSize, scale, offsetX, offsetY,
                glyph, editableCommands, isDragging, dragPoint, previewCanvas,
                listeners, cursor, canvas, preview, moves, mouseAt>>

draggerVars == <<dragger, transform, classList, grab, pointer, events>>

vars == <<editorVars, draggerVars, last>>

(***************************************************************************)
(* Bounds of the model.                                                    *)
(***************************************************************************)
MaxMoves == 2

MaxEvents == 4

(***************************************************************************)
(* Numbers: exact rationals <<n, d>> with d > 0, and the three values that  *)
(* are not finite: Infinity <<1, 0>>, -Infinity <<-1, 0>> and NaN <<0, 0>>. *)
(***************************************************************************)
Abs(n) == IF n < 0 THEN -n ELSE n

Sign(n) == IF n > 0 THEN 1 ELSE IF n < 0 THEN -1 ELSE 0

RECURSIVE GCD(_, _)
GCD(a, b) == IF b = 0 THEN a ELSE GCD(b, a % b)

Norm(n, d) == IF d = 1 THEN <<n, 1>>
              ELSE IF d = 0 THEN <<Sign(n), 0>>
              ELSE LET g == GCD(Abs(n), d) IN <<n \div g, d \div g>>

N(i) == <<i, 1>>

Zero == N(0)

NaN == <<0, 0>>

isFinite(a) == a[2] # 0

Add(a, b) == IF a[2] = 0 /\ b[2] = 0
             THEN IF a = b THEN a ELSE NaN
             ELSE Norm(a[1] * b[2] + b[1] * a[2], a[2] * b[2])

Neg(a) == <<-a[1], a[2]>>

Sub(a, b) == Add(a, Neg(b))

Mul(a, b) == Norm(a[1] * b[1], a[2] * b[2])

Div(a, b) == IF b[1] < 0 THEN Norm(-(a[1] * b[2]), -(a[2] * b[1]))
                         ELSE Norm(a[1] * b[2], a[2] * b[1])

Leq(a, b) == /\ a # NaN
             /\ b # NaN
             /\ IF a[2] = 0 /\ b[2] = 0 THEN a[1] <= b[1]
                                         ELSE a[1] * b[2] <= b[1] * a[2]

Min(a, b) == IF a = NaN \/ b = NaN THEN NaN ELSE IF Leq(a, b) THEN a ELSE b

Pow2(a) == Mul(a, a)

(***************************************************************************)
(* The page and the font: what the code takes from outside.                *)
(***************************************************************************)
Builds == {"site", "comove", "legacy"}

\* The ids the page defines (document.getElementById finds exactly these).
Document == {"glyphEditorCanvas", "glyphPreviewCanvas", "glyphSize",
             "glyphSizeValue", "resetGlyph", "toggleControlPoints"}

\* canvas.getBoundingClientRect()
CanvasRect == [width |-> N(40), height |-> N(40)]

\* The values the size slider can deliver (e.target.value).
SliderValues == {500}

\* Mouse positions relative to the canvas (getMousePos).
MousePositions == {<<20, 8>>, <<28, 4>>, <<4, 36>>}

\* A glyph as the font library hands it over: path commands M, L, C, Q, Z
\* carrying the fields of their type, and the bounding box of the outline.
Glyphs ==
    { [ path |-> [commands |-> <<
            [type |-> "M", x |-> N(16), y |-> N(0)],
            [type |-> "C", x1 |-> N(32), y1 |-> N(32), x2 |-> N(24), y2 |-> N(32),
                           x |-> N(16), y |-> N(32)],
            [type |-> "Q", x1 |-> N(32), y1 |-> N(0), x |-> N(32), y |-> N(16)],
            [type |-> "Z"] >>],
        bbox |-> [x1 |-> N(0), y1 |-> N(0), x2 |-> N(32), y2 |-> N(32)] ],
      [ path |-> [commands |-> <<
            [type |-> "M", x |-> N(0), y |-> N(0)],
            [type |-> "L", x |-> N(32), y |-> N(32)] >>],
        bbox |-> [x1 |-> N(0), y1 |-> N(0), x2 |-> N(32), y2 |-> N(32)] ] }

NoGlyph == [path |-> [commands |-> <<>>],
            bbox |-> [x1 |-> Zero, y1 |-> Zero, x2 |-> Zero, y2 |-> Zero]]

originalPath == glyph.path

NULL == [cmdIndex |-> 0, pointType |-> "null"]

\* No drag move has just been handled.
NoMouse == <<>>

Blank == [kind |-> "blank", commands |-> <<>>, scale |-> Zero, offsetX |-> Zero,
          offsetY |-> Zero, controls |-> FALSE]

\* this.controlPointRadius, set by the constructor
controlPointRadius == IF build = "comove" THEN N(4) ELSE N(8)

has(cmd, f) == f \in DOMAIN cmd

(***************************************************************************)
(* The editor's pure functions.                                            *)
(***************************************************************************)
\* cmd.f || 0
orZero(cmd, f) == IF has(cmd, f) /\ cmd[f] # Zero THEN cmd[f] ELSE Zero

\* editableCmd with the second control point's shadow copied from the first.
editableCmdBadShadow(cmd) ==
    LET base == [type |-> cmd.type,
                 x |-> orZero(cmd, "x"), y |-> orZero(cmd, "y"),
                 originalX |-> orZero(cmd, "x"), originalY |-> orZero(cmd, "y")]
        cp1 == IF has(cmd, "x1")
               THEN [x1 |-> cmd.x1, y1 |-> cmd.y1,
                     originalX1 |-> cmd.x1, originalY1 |-> cmd.y1]
               ELSE <<>>
        cp2 == IF has(cmd, "x2")
               THEN [x2 |-> cmd.x2, y2 |-> cmd.y2,
                     originalX2 |-> cmd.x1, originalY2 |-> cmd.y1]
               ELSE <<>>
    IN  base @@ cp1 @@ cp2

editableCmd(cmd) ==
    LET base == [type |-> cmd.type,
                 x |-> orZero(cmd, "x"), y |-> orZero(cmd, "y"),
                 originalX |-> orZero(cmd, "x"), originalY |-> orZero(cmd, "y")]
        cp1 == IF has(cmd, "x1")
               THEN [x1 |-> cmd.x1, y1 |-> cmd.y1,
                     originalX1 |-> cmd.x1, originalY1 |-> cmd.y1]
               ELSE <<>>
        cp2 == IF has(cmd, "x2")
               THEN [x2 |-> cmd.x2, y2 |-> cmd.y2,
                     originalX2 |-> cmd.x2, originalY2 |-> cmd.y2]
               ELSE <<>>
    IN  base @@ cp1 @@ cp2

parseGlyphPath(commands) == [i \in 1..Len(commands) |-> editableCmd(commands[i])]

calculateOptimalScale(g, rect) ==
    LET bbox == g.bbox
        glyphWidth == Sub(bbox.x2, bbox.x1)
        glyphHeight == Sub(bbox.y2, bbox.y1)
        canvasWidth == Mul(rect.width, <<4, 5>>)
        canvasHeight == Mul(rect.height, <<4, 5>>)
        scaleX == Div(canvasWidth, glyphWidth)
        scaleY == Div(canvasHeight, glyphHeight)
        s == Min(scaleX, scaleY)
        glyphCenterX == Div(Add(bbox.x1, bbox.x2), N(2))
        glyphCenterY == Div(Add(bbox.y1, bbox.y2), N(2))
    IN  [scale |-> s,
         offsetX |-> Sub(Div(rect.width, N(2)), Mul(glyphCenterX, s)),
         offsetY |-> Add(Div(rect.height, N(2)), Mul(glyphCenterY, s))]

transformPoint(x, y) ==
    [x |-> Add(offsetX, Mul(x, scale)),
     y |-> Sub(offsetY, Mul(y, scale))]

\* inverseTransformPoint without the flip of the Y axis.
inverseTransformPointNoFlip(x, y) ==
    [x |-> Div(Sub(x, offsetX), scale),
     y |-> Div(Sub(y, offsetY), scale)]

inverseTransformPoint(x, y) ==
    [x |-> Div(Sub(x, offsetX), scale),
     y |-> Div(Neg(Sub(y, offsetY)), scale)]

\* The square of the distance findControlPoint takes the root of.
distance2(mouseX, mouseY, point) ==
    Add(Pow2(Sub(mouseX, point.x)), Pow2(Sub(mouseY, point.y)))

\* inRadius with distance < this.controlPointRadius
inRadiusStrict(mouseX, mouseY, px, py) ==
    LET d == distance2(mouseX, mouseY, transformPoint(px, py))
    IN  Leq(d, Pow2(controlPointRadius)) /\ d # Pow2(controlPointRadius)

\* distance <= this.controlPointRadius, for the point (px, py) in font units
inRadius(mouseX, mouseY, px, py) ==
    Leq(distance2(mouseX, mouseY, transformPoint(px, py)), Pow2(controlPointRadius))

\* findFrom with the control points of a command tested before its main point.
RECURSIVE findFromControlsFirst(_, _, _)
findFromControlsFirst(i, mouseX, mouseY) ==
    IF i > Len(editableCommands) THEN NULL
    ELSE LET cmd == editableCommands[i] IN
         IF has(cmd, "x1") /\ has(cmd, "y1")
            /\ inRadius(mouseX, mouseY, cmd.x1, cmd.y1)
         THEN [cmdIndex |-> i, pointType |-> "cp1"]
         ELSE IF has(cmd, "x2") /\ has(cmd, "y2")
                 /\ inRadius(mouseX, mouseY, cmd.x2, cmd.y2)
         THEN [cmdIndex |-> i, pointType |-> "cp2"]
         ELSE IF has(cmd, "x") /\ has(cmd, "y")
                 /\ inRadius(mouseX, mouseY, cmd.x, cmd.y)
         THEN [cmdIndex |-> i, pointType |-> "main"]
         ELSE findFromControlsFirst(i + 1, mouseX, mouseY)

\* findFrom scanning the commands from the last to the first.
RECURSIVE findFromLastFirst(_, _, _)
findFromLastFirst(i, mouseX, mouseY) ==
    IF i > Len(editableCommands) THEN NULL
    ELSE LET k == Len(editableCommands) + 1 - i
             cmd == editableCommands[k]
         IN
         IF has(cmd, "x") /\ has(cmd, "y") /\ inRadius(mouseX, mouseY, cmd.x, cmd.y)
         THEN [cmdIndex |-> k, pointType |-> "main"]
         ELSE IF has(cmd, "x1") /\ has(cmd, "y1")
                 /\ inRadius(mouseX, mouseY, cmd.x1, cmd.y1)
         THEN [cmdIndex |-> k, pointType |-> "cp1"]
         ELSE IF has(cmd, "x2") /\ has(cmd, "y2")
                 /\ inRadius(mouseX, mouseY, cmd.x2, cmd.y2)
         THEN [cmdIndex |-> k, pointType |-> "cp2"]
         ELSE findFromLastFirst(i + 1, mouseX, mouseY)

RECURSIVE findFrom(_, _, _)
findFrom(i, mouseX, mouseY) ==
    IF i > Len(editableCommands) THEN NULL
    ELSE LET cmd == editableCommands[i] IN
         IF has(cmd, "x") /\ has(cmd, "y") /\ inRadius(mouseX, mouseY, cmd.x, cmd.y)
         THEN [cmdIndex |-> i, pointType |-> "main"]
         ELSE IF has(cmd, "x1") /\ has(cmd, "y1")
                 /\ inRadius(mouseX, mouseY, cmd.x1, cmd.y1)
         THEN [cmdIndex |-> i, pointType |-> "cp1"]
         ELSE IF has(cmd, "x2") /\ has(cmd, "y2")
                 /\ inRadius(mouseX, mouseY, cmd.x2, cmd.y2)
         THEN [cmdIndex |-> i, pointType |-> "cp2"]
         ELSE findFrom(i + 1, mouseX, mouseY)

findControlPoint(mouseX, mouseY) == findFrom(1, mouseX, mouseY)

\* cmd.f = v: the assignment sets the property, whether cmd had it or not.
assign(cmd, f, v) == (f :> v) @@ cmd

\* dragTo in which a drag of a main point also writes x1, y1 on the command.
dragToWritesCp1(cmds, dp, worldPos) ==
    LET i == dp.cmdIndex
        cmd == cmds[i]
    IN  IF dp.pointType = "main" THEN
            [cmds EXCEPT ![i] = assign(assign(assign(assign(cmd, "x", worldPos.x),
                                   "y", worldPos.y), "x1", worldPos.x), "y1", worldPos.y)]
        ELSE IF dp.pointType = "cp1" THEN
            [cmds EXCEPT ![i] = assign(assign(cmd, "x1", worldPos.x), "y1", worldPos.y)]
        ELSE IF dp.pointType = "cp2" THEN
            [cmds EXCEPT ![i] = assign(assign(cmd, "x2", worldPos.x), "y2", worldPos.y)]
        ELSE cmds

\* dragTo in which a drag of one control point of a command moves the other too.
dragToBothHandles(cmds, dp, worldPos) ==
    LET i == dp.cmdIndex
        cmd == cmds[i]
        both == assign(assign(assign(assign(cmd, "x1", worldPos.x), "y1", worldPos.y),
                              "x2", worldPos.x), "y2", worldPos.y)
    IN  IF dp.pointType = "main" THEN
            [cmds EXCEPT ![i] = assign(assign(cmd, "x", worldPos.x), "y", worldPos.y)]
        ELSE IF dp.pointType \in {"cp1", "cp2"} /\ has(cmd, "x1") /\ has(cmd, "x2") THEN
            [cmds EXCEPT ![i] = both]
        ELSE IF dp.pointType = "cp1" THEN
            [cmds EXCEPT ![i] = assign(assign(cmd, "x1", worldPos.x), "y1", worldPos.y)]
        ELSE IF dp.pointType = "cp2" THEN
            [cmds EXCEPT ![i] = assign(assign(cmd, "x2", worldPos.x), "y2", worldPos.y)]
        ELSE cmds

\* dragTo in which the point takes worldPos with its axes swapped.
dragToSwapsAxes(cmds, dp, worldPos) ==
    LET i == dp.cmdIndex
        cmd == cmds[i]
    IN  IF dp.pointType = "main" THEN
            [cmds EXCEPT ![i] = assign(assign(cmd, "x", worldPos.y), "y", worldPos.x)]
        ELSE IF dp.pointType = "cp1" THEN
            [cmds EXCEPT ![i] = assign(assign(cmd, "x1", worldPos.y), "y1", worldPos.x)]
        ELSE IF dp.pointType = "cp2" THEN
            [cmds EXCEPT ![i] = assign(assign(cmd, "x2", worldPos.y), "y2", worldPos.x)]
        ELSE cmds

\* dragTo in which a drag of a main point moves its shadow along.
dragToMovesShadow(cmds, dp, worldPos) ==
    LET i == dp.cmdIndex
        cmd == cmds[i]
    IN  IF dp.pointType = "main" THEN
            [cmds EXCEPT ![i] = assign(assign(assign(assign(cmd, "x", worldPos.x),
                                   "y", worldPos.y), "originalX", worldPos.x),
                                   "originalY", worldPos.y)]
        ELSE IF dp.pointType = "cp1" THEN
            [cmds EXCEPT ![i] = assign(assign(cmd, "x1", worldPos.x), "y1", worldPos.y)]
        ELSE IF dp.pointType = "cp2" THEN
            [cmds EXCEPT ![i] = assign(assign(cmd, "x2", worldPos.x), "y2", worldPos.y)]
        ELSE cmds

\* The commands after a drag move of dragPoint dp to worldPos.
dragTo(cmds, dp, worldPos) ==
    LET i == dp.cmdIndex
        cmd == cmds[i]
    IN  IF dp.pointType = "main" THEN
            [cmds EXCEPT ![i] = assign(assign(cmd, "x", worldPos.x), "y", worldPos.y)]
        ELSE IF dp.pointType = "cp1" THEN
            [cmds EXCEPT ![i] = assign(assign(cmd, "x1", worldPos.x), "y1", worldPos.y)]
        ELSE IF dp.pointType = "cp2" THEN
            [cmds EXCEPT ![i] = assign(assign(cmd, "x2", worldPos.x), "y2", worldPos.y)]
        ELSE cmds

\* dragToCoMove without the move of the next command's first control point.
dragToCoMoveOwnOnly(cmds, dp, worldPos) ==
    LET i == dp.cmdIndex
        cmd == cmds[i]
        deltaX == Sub(worldPos.x, cmd.x)
        deltaY == Sub(worldPos.y, cmd.y)
        moved == assign(assign(cmd, "x", worldPos.x), "y", worldPos.y)
        own == IF has(cmd, "x2")
               THEN assign(assign(moved, "x2", Add(cmd.x2, deltaX)),
                           "y2", Add(cmd.y2, deltaY))
               ELSE moved
    IN  IF dp.pointType = "main"
        THEN [cmds EXCEPT ![i] = own]
        ELSE dragTo(cmds, dp, worldPos)

\* dragToCoMove in which the dragged command's own first control point goes
\* along as well.
dragToCoMoveOwnCp1(cmds, dp, worldPos) ==
    LET i == dp.cmdIndex
        cmd == cmds[i]
        deltaX == Sub(worldPos.x, cmd.x)
        deltaY == Sub(worldPos.y, cmd.y)
        moved == assign(assign(cmd, "x", worldPos.x), "y", worldPos.y)
        own == IF has(cmd, "x2")
               THEN assign(assign(moved, "x2", Add(cmd.x2, deltaX)),
                           "y2", Add(cmd.y2, deltaY))
               ELSE moved
        own1 == IF has(cmd, "x1")
                THEN assign(assign(own, "x1", Add(cmd.x1, deltaX)),
                            "y1", Add(cmd.y1, deltaY))
                ELSE own
        withOwn == [cmds EXCEPT ![i] = own1]
    IN  IF dp.pointType = "main" THEN
            IF i < Len(cmds) /\ has(cmds[i + 1], "x1")
            THEN [withOwn EXCEPT ![i + 1] =
                     assign(assign(cmds[i + 1], "x1", Add(cmds[i + 1].x1, deltaX)),
                            "y1", Add(cmds[i + 1].y1, deltaY))]
            ELSE withOwn
        ELSE dragTo(cmds, dp, worldPos)

\* The same in the copy that moves the attached control points along.
dragToCoMove(cmds, dp, worldPos) ==
    LET i == dp.cmdIndex
        cmd == cmds[i]
        deltaX == Sub(worldPos.x, cmd.x)
        deltaY == Sub(worldPos.y, cmd.y)
        moved == assign(assign(cmd, "x", worldPos.x), "y", worldPos.y)
        own == IF has(cmd, "x2")
               THEN assign(assign(moved, "x2", Add(cmd.x2, deltaX)),
                           "y2", Add(cmd.y2, deltaY))
               ELSE moved
        withOwn == [cmds EXCEPT ![i] = own]
    IN  IF dp.pointType = "main" THEN
            IF i < Len(cmds) /\ has(cmds[i + 1], "x1")
            THEN [withOwn EXCEPT ![i + 1] =
                     assign(assign(cmds[i + 1], "x1", Add(cmds[i + 1].x1, deltaX)),
                            "y1", Add(cmds[i + 1].y1, deltaY))]
            ELSE withOwn
        ELSE dragTo(cmds, dp, worldPos)

\* resetCmd without the reset of the second control point.
resetCmdNoCp2(cmd) ==
    LET main == assign(assign(cmd, "x", cmd.originalX), "y", cmd.originalY)
    IN  IF has(cmd, "originalX1")
        THEN assign(assign(main, "x1", cmd.originalX1), "y1", cmd.originalY1)
        ELSE main

resetCmd(cmd) ==
    LET main == assign(assign(cmd, "x", cmd.originalX), "y", cmd.originalY)
        cp1 == IF has(cmd, "originalX1")
               THEN assign(assign(main, "x1", cmd.originalX1), "y1", cmd.originalY1)
               ELSE main
    IN  IF has(cmd, "originalX2")
        THEN assign(assign(cp1, "x2", cmd.originalX2), "y2", cmd.originalY2)
        ELSE cp1

\* The commands resetGlyph leaves.
resetGlyph(cmds) == [i \in 1..Len(cmds) |-> resetCmd(cmds[i])]

\* What render() leaves on the editor canvas.
render(cmds, s, ox, oy, show) ==
    [kind |-> "glyph", commands |-> cmds, scale |-> s, offsetX |-> ox,
     offsetY |-> oy, controls |-> show]

\* A render() that does not update the preview canvas.
renderPreviewStale(cmds, old) == old

\* What render() leaves on the preview canvas, when it was showing old.
renderPreview(cmds, old) ==
    IF build # "legacy" /\ previewCanvas
    THEN [kind |-> "glyph", commands |-> cmds]
    ELSE old

\* What renderFallback() leaves on the editor canvas.
renderFallback(old) == [old EXCEPT !.kind = "fallback"]

setupControls ==
    (IF {"glyphSize", "glyphSizeValue"} \subseteq Document THEN {"input"} ELSE {})
    \cup (IF "resetGlyph" \in Document THEN {"reset"} ELSE {})
    \cup (IF "toggleControlPoints" \in Document THEN {"toggle"} ELSE {})

setupEventListeners == {"mousedown", "mousemove", "mouseup", "mouseleave"}

(***************************************************************************)
(* The editor: construction, setup and the event handlers.                 *)
(***************************************************************************)
InitEditor ==
    /\ build \in Builds
    /\ pc = "constructed"
    /\ showControlPoints = TRUE
    /\ glyphSize = 400
    /\ scale = N(1)
    /\ offsetX = Zero
    /\ offsetY = Zero
    /\ glyph = NoGlyph
    /\ editableCommands = <<>>
    /\ isDragging = FALSE
    /\ dragPoint = NULL
    /\ previewCanvas = FALSE
    /\ listeners = {}
    /\ cursor = ""
    /\ canvas = Blank
    /\ preview = [kind |-> "blank", commands |-> <<>>]
    /\ moves = 0
    /\ mouseAt = NoMouse

\* A setup() that registers the listeners before it awaits the font.
setupRegistersFirst ==
    /\ pc = "constructed"
    /\ pc' = "loading"
    /\ previewCanvas' = (build # "legacy" /\ "glyphPreviewCanvas" \in Document)
    /\ offsetX' = Div(CanvasRect.width, N(2))
    /\ offsetY' = Div(CanvasRect.height, N(2))
    /\ scale' = IF build = "legacy" THEN Div(N(glyphSize), N(1000)) ELSE scale
    /\ listeners' = setupControls \cup setupEventListeners
    /\ UNCHANGED <<build, showControlPoints, glyphSize, glyph, editableCommands,
                   isDragging, dragPoint, cursor, canvas, preview, moves>>
    /\ last' = "setup"
    /\ mouseAt' = NoMouse
    /\ UNCHANGED draggerVars

\* setup() up to the await of opentype.load
setup ==
    /\ pc = "constructed"
    /\ IF "glyphEditorCanvas" \notin Document
       THEN /\ pc' = "nocanvas"
            /\ UNCHANGED <<previewCanvas, offsetX, offsetY, scale>>
       ELSE /\ pc' = "loading"
            /\ previewCanvas' = (build # "legacy" /\ "glyphPreviewCanvas" \in Document)
            /\ offsetX' = Div(CanvasRect.width, N(2))
            /\ offsetY' = Div(CanvasRect.height, N(2))
            /\ scale' = IF build = "legacy" THEN Div(N(glyphSize), N(1000)) ELSE scale
    /\ UNCHANGED <<build, showControlPoints, glyphSize, glyph, editableCommands,
                   isDragging, dragPoint, listeners, cursor, canvas, preview, moves>>
    /\ last' = "setup"
    /\ mouseAt' = NoMouse
    /\ UNCHANGED draggerVars

\* setup() after opentype.load resolved with a font whose '&' glyph is g
loadResolved(g) ==
    /\ pc = "loading"
    /\ pc' = "ready"
    /\ glyph' = g
    /\ editableCommands' = parseGlyphPath(g.path.commands)
    /\ LET t == IF build = "legacy"
                THEN [scale |-> scale, offsetX |-> offsetX, offsetY |-> offsetY]
                ELSE calculateOptimalScale(g, CanvasRect)
       IN  /\ scale' = t.scale
           /\ offsetX' = t.offsetX
           /\ offsetY' = t.offsetY
    /\ listeners' = setupControls \cup setupEventListeners
    /\ canvas' = render(editableCommands', scale', offsetX', offsetY', showControlPoints)
    /\ preview' = renderPreview(editableCommands', preview)
    /\ UNCHANGED <<build, showControlPoints, glyphSize, isDragging, dragPoint,
                   previewCanvas, cursor, moves>>
    /\ last' = "loadResolved"
    /\ mouseAt' = NoMouse
    /\ UNCHANGED draggerVars

\* loadRejected in a setup() that registered the listeners before the load.
loadRejectedWithListeners ==
    /\ pc = "loading"
    /\ pc' = "failed"
    /\ canvas' = renderFallback(canvas)
    /\ listeners' = setupControls \cup setupEventListeners
    /\ last' = "loadRejected"
    /\ mouseAt' = NoMouse
    /\ UNCHANGED <<build, showControlPoints, glyphSize, scale, offsetX, offsetY, glyph,
                   editableCommands, isDragging, dragPoint, previewCanvas,
                   cursor, preview, moves>>
    /\ UNCHANGED draggerVars

\* setup() after opentype.load rejected: the catch block
loadRejected ==
    /\ pc = "loading"
    /\ pc' = "failed"
    /\ canvas' = renderFallback(canvas)
    /\ UNCHANGED <<build, showControlPoints, glyphSize, scale, offsetX, offsetY, glyph,
                   editableCommands, isDragging, dragPoint, previewCanvas, listeners,
                   cursor, preview, moves>>
    /\ last' = "loadRejected"
    /\ mouseAt' = NoMouse
    /\ UNCHANGED draggerVars

\* The statements of the try block between the await and setupControls that
\* call into the font library, where a throw can come from: the extraction of
\* the glyph and its path, and getBoundingBox in calculateOptimalScale (which
\* the older copy does not call).
ThrowPoints == IF build = "legacy" THEN {"glyph"} ELSE {"glyph", "scale"}

\* A setup() in which the throw comes from the first render, with the listeners
\* registered.
loadResolvedThrowsAtRender(g, at) ==
    /\ pc = "loading"
    /\ at \in ThrowPoints
    /\ pc' = "threw"
    /\ glyph' = g
    /\ editableCommands' = parseGlyphPath(g.path.commands)
    /\ listeners' = setupControls \cup setupEventListeners
    /\ canvas' = renderFallback(canvas)
    /\ UNCHANGED <<build, showControlPoints, glyphSize, scale, offsetX, offsetY,
                   isDragging, dragPoint, previewCanvas, cursor, preview, moves>>
    /\ last' = "loadThrew"
    /\ mouseAt' = NoMouse
    /\ UNCHANGED draggerVars

\* setup() after opentype.load resolved with a font whose '&' glyph is g, when
\* a statement at throw point at throws: the catch block
loadResolvedThrows(g, at) ==
    /\ pc = "loading"
    /\ at \in ThrowPoints
    /\ pc' = "threw"
    /\ IF at = "scale"
       THEN /\ glyph' = g
            /\ editableCommands' = parseGlyphPath(g.path.commands)
       ELSE UNCHANGED <<glyph, editableCommands>>
    /\ canvas' = renderFallback(canvas)
    /\ UNCHANGED <<build, showControlPoints, glyphSize, scale, offsetX, offsetY,
                   isDragging, dragPoint, previewCanvas, listeners, cursor, preview,
                   moves>>
    /\ last' = "loadThrew"
    /\ mouseAt' = NoMouse
    /\ UNCHANGED draggerVars

\* A slider listener that also puts the points back on a change of size.
onSliderInputResets(value) ==
    /\ "input" \in listeners
    /\ glyphSize' = value
    /\ scale' = Div(N(value), N(1000))
    /\ editableCommands' = resetGlyph(editableCommands)
    /\ canvas' = render(editableCommands', scale', offsetX, offsetY, showControlPoints)
    /\ preview' = renderPreview(editableCommands', preview)
    /\ UNCHANGED <<build, pc, showControlPoints, offsetX, offsetY, glyph,
                   isDragging, dragPoint, previewCanvas, listeners, cursor, moves>>
    /\ last' = "input"
    /\ mouseAt' = NoMouse
    /\ UNCHANGED draggerVars

\* the slider's input listener
onSliderInput(value) ==
    /\ "input" \in listeners
    /\ glyphSize' = value
    /\ scale' = Div(N(value), N(1000))
    /\ canvas' = render(editableCommands, scale', offsetX, offsetY, showControlPoints)
    /\ preview' = renderPreview(editableCommands, preview)
    /\ UNCHANGED <<build, pc, showControlPoints, offsetX, offsetY, glyph,
                   editableCommands, isDragging, dragPoint, previewCanvas, listeners,
                   cursor, moves>>
    /\ last' = "input"
    /\ mouseAt' = NoMouse
    /\ UNCHANGED draggerVars

\* A reset listener that also ends the drag in progress.
onResetClickEndsDrag ==
    /\ "reset" \in listeners
    /\ editableCommands' = resetGlyph(editableCommands)
    /\ isDragging' = FALSE
    /\ dragPoint' = NULL
    /\ canvas' = render(editableCommands', scale, offsetX, offsetY, showControlPoints)
    /\ preview' = renderPreview(editableCommands', preview)
    /\ UNCHANGED <<build, pc, showControlPoints, glyphSize, scale, offsetX, offsetY,
                   glyph, previewCanvas, listeners, cursor, moves>>
    /\ last' = "reset"
    /\ mouseAt' = NoMouse
    /\ UNCHANGED draggerVars

\* the reset button's click listener
onResetClick ==
    /\ "reset" \in listeners
    /\ editableCommands' = resetGlyph(editableCommands)
    /\ canvas' = render(editableCommands', scale, offsetX, offsetY, showControlPoints)
    /\ preview' = renderPreview(editableCommands', preview)
    /\ UNCHANGED <<build, pc, showControlPoints, glyphSize, scale, offsetX, offsetY,
                   glyph, isDragging, dragPoint, previewCanvas, listeners, cursor, moves>>
    /\ last' = "reset"
    /\ mouseAt' = NoMouse
    /\ UNCHANGED draggerVars

\* the toggle button's click listener
onToggleClick ==
    /\ "toggle" \in listeners
    /\ showControlPoints' = ~showControlPoints
    /\ canvas' = render(editableCommands, scale, offsetX, offsetY, showControlPoints')
    /\ preview' = renderPreview(editableCommands, preview)
    /\ UNCHANGED <<build, pc, glyphSize, scale, offsetX, offsetY, glyph,
                   editableCommands, isDragging, dragPoint, previewCanvas, listeners,
                   cursor, moves>>
    /\ last' = "toggle"
    /\ mouseAt' = NoMouse
    /\ UNCHANGED draggerVars

onMouseDown(m) ==
    /\ "mousedown" \in listeners
    /\ IF ~showControlPoints
       THEN UNCHANGED <<dragPoint, isDragging, cursor>>
       ELSE /\ dragPoint' = findControlPoint(N(m[1]), N(m[2]))
            /\ IF dragPoint' # NULL
               THEN isDragging' = TRUE /\ cursor' = "grabbing"
               ELSE UNCHANGED <<isDragging, cursor>>
    /\ UNCHANGED <<build, pc, showControlPoints, glyphSize, scale, offsetX, offsetY,
                   glyph, editableCommands, previewCanvas, listeners, canvas, preview,
                   moves>>
    /\ last' = "mousedown"
    /\ mouseAt' = NoMouse
    /\ UNCHANGED draggerVars

onMouseMove(m) ==
    /\ "mousemove" \in listeners
    /\ IF isDragging /\ dragPoint # NULL
       THEN /\ moves < MaxMoves
            /\ moves' = moves + 1
            /\ LET worldPos == inverseTransformPoint(N(m[1]), N(m[2]))
               IN  editableCommands' =
                       IF build = "comove"
                       THEN dragToCoMove(editableCommands, dragPoint, worldPos)
                       ELSE dragTo(editableCommands, dragPoint, worldPos)
            /\ canvas' = render(editableCommands', scale, offsetX, offsetY,
                                showControlPoints)
            /\ preview' = renderPreview(editableCommands', preview)
            /\ mouseAt' = m
            /\ UNCHANGED cursor
       ELSE /\ cursor' = IF showControlPoints
                         THEN IF findControlPoint(N(m[1]), N(m[2])) # NULL
                              THEN "grab" ELSE "crosshair"
                         ELSE cursor
            /\ mouseAt' = NoMouse
            /\ UNCHANGED <<editableCommands, canvas, preview, moves>>
    /\ UNCHANGED <<build, pc, showControlPoints, glyphSize, scale, offsetX, offsetY,
                   glyph, isDragging, dragPoint, previewCanvas, listeners>>
    /\ last' = "mousemove"
    /\ UNCHANGED draggerVars

\* An onMouseUp that forgets the drag target and leaves the drag flag set.
onMouseUpKeepsFlag ==
    /\ dragPoint' = NULL
    /\ cursor' = IF showControlPoints THEN "crosshair" ELSE "default"
    /\ UNCHANGED <<build, pc, showControlPoints, glyphSize, scale, offsetX, offsetY,
                   glyph, editableCommands, isDragging, previewCanvas, listeners,
                   canvas, preview, moves>>
    /\ UNCHANGED draggerVars

\* onMouseUp, as the mouseup and the mouseleave listeners call it
onMouseUp ==
    /\ isDragging' = FALSE
    /\ dragPoint' = NULL
    /\ cursor' = IF showControlPoints THEN "crosshair" ELSE "default"
    /\ UNCHANGED <<build, pc, showControlPoints, glyphSize, scale, offsetX, offsetY,
                   glyph, editableCommands, previewCanvas, listeners, canvas, preview, moves>>
    /\ UNCHANGED draggerVars

mouseup ==
    "mouseup" \in listeners /\ onMouseUp /\ last' = "mouseup" /\ mouseAt' = NoMouse

mouseleave ==
    "mouseleave" \in listeners /\ onMouseUp /\ last' = "mouseleave" /\ mouseAt' = NoMouse

(***************************************************************************)
(* The element dragger: makeDraggable(element) and its three listeners.    *)
(* Its copies are "site" (js/site.js) and "comove" (unnamed/part_000).     *)
(***************************************************************************)
\* The draggable element's translation before the script runs (its CSS).
InitialTransforms == {<<0, 0>>, <<2, 1>>}

\* Pointer positions (clientX, clientY) of mouse and touch events.
Pointers == {<<0, 0>>, <<3, 1>>, <<1, 2>>}

\* mousedown and touchstart reach the element's listener from the element
\* itself or, bubbling, from a descendant of it.
StartEvents == [type : {"mousedown", "touchstart"}, pos : Pointers,
                target : {"element", "child"}]

MoveEvents == [type : {"mousemove", "touchmove"}, pos : Pointers]

EndEvents == [type : {"mouseup", "touchend"}]

\* e.clientX, or e.touches[0].clientX for a touch event
clientX(e) == e.pos[1]

clientY(e) == e.pos[2]

\* The closure variables makeDraggable declares, for an element translated by t.
makeDraggable(t) ==
    IF build = "comove"
    THEN [isDragging |-> FALSE, startX |-> 0, startY |-> 0,
          offsetX |-> t[1], offsetY |-> t[2]]
    ELSE [isDragging |-> FALSE, currentX |-> 0, currentY |-> 0,
          initialX |-> 0, initialY |-> 0, xOffset |-> 0, yOffset |-> 0]

NoGrab == [x |-> 0, y |-> 0, tx |-> 0, ty |-> 0]

dragStartSite(e) ==
    LET d == [dragger EXCEPT !.initialX = clientX(e) - dragger.xOffset,
                             !.initialY = clientY(e) - dragger.yOffset]
    IN  IF e.target = "element"
        THEN /\ dragger' = [d EXCEPT !.isDragging = TRUE]
             /\ classList' = classList \cup {"dragging"}
        ELSE /\ dragger' = d
             /\ UNCHANGED classList

dragStartCoMove(e) ==
    IF e.target = "element"
    THEN /\ dragger' = [dragger EXCEPT !.isDragging = TRUE,
                                       !.startX = clientX(e) - dragger.offsetX,
                                       !.startY = clientY(e) - dragger.offsetY]
         /\ classList' = classList \cup {"dragging"}
    ELSE UNCHANGED <<dragger, classList>>

dragStart(e) ==
    /\ events < MaxEvents
    /\ events' = events + 1
    /\ IF build = "comove" THEN dragStartCoMove(e) ELSE dragStartSite(e)
    /\ grab' = IF e.target = "element"
               THEN [x |-> clientX(e), y |-> clientY(e),
                     tx |-> transform[1], ty |-> transform[2]]
               ELSE grab
    /\ pointer' = e.pos
    /\ last' = "dragStart"
    /\ UNCHANGED transform
    /\ UNCHANGED editorVars

\* A dragEnd that leaves the 'dragging' class on the element.
dragEndKeepsClass(e) ==
    /\ events < MaxEvents
    /\ events' = events + 1
    /\ dragger' = IF build = "comove"
                  THEN [dragger EXCEPT !.isDragging = FALSE]
                  ELSE [dragger EXCEPT !.initialX = dragger.currentX,
                                       !.initialY = dragger.currentY,
                                       !.isDragging = FALSE]
    /\ last' = "dragEnd"
    /\ UNCHANGED <<transform, classList, grab, pointer>>
    /\ UNCHANGED editorVars

dragEnd(e) ==
    /\ events < MaxEvents
    /\ events' = events + 1
    /\ dragger' = IF build = "comove"
                  THEN [dragger EXCEPT !.isDragging = FALSE]
                  ELSE [dragger EXCEPT !.initialX = dragger.currentX,
                                       !.initialY = dragger.currentY,
                                       !.isDragging = FALSE]
    /\ classList' = classList \ {"dragging"}
    /\ last' = "dragEnd"
    /\ UNCHANGED <<transform, grab, pointer>>
    /\ UNCHANGED editorVars

dragSite(e) ==
    LET currentX == clientX(e) - dragger.initialX
        currentY == clientY(e) - dragger.initialY
    IN  /\ dragger' = [dragger EXCEPT !.currentX = currentX, !.currentY = currentY,
                                      !.xOffset = currentX, !.yOffset = currentY]
        /\ transform' = <<currentX, currentY>>

dragCoMove(e) ==
    LET offX == clientX(e) - dragger.startX
        offY == clientY(e) - dragger.startY
    IN  /\ dragger' = [dragger EXCEPT !.offsetX = offX, !.offsetY = offY]
        /\ transform' = <<offX, offY>>

drag(e) ==
    /\ events < MaxEvents
    /\ events' = events + 1
    /\ IF dragger.isDragging
       THEN IF build = "comove" THEN dragCoMove(e) ELSE dragSite(e)
       ELSE UNCHANGED <<dragger, transform>>
    /\ pointer' = e.pos
    /\ last' = "drag"
    /\ UNCHANGED <<classList, grab>>
    /\ UNCHANGED editorVars

\* A page with the editor and no draggable container.
InitNoDragger ==
    /\ dragger = [isDragging |-> FALSE]
    /\ transform = <<0, 0>>
    /\ classList = {}
    /\ grab = NoGrab
    /\ pointer = <<0, 0>>
    /\ events = 0
    /\ last = "constructor"

\* A page with one draggable container, after makeDraggable(element).
InitDragger ==
    /\ InitEditor
    /\ build \in {"site", "comove"}
    /\ transform \in InitialTransforms
    /\ dragger = makeDraggable(transform)
    /\ classList = {}
    /\ grab = NoGrab
    /\ pointer = <<0, 0>>
    /\ events = 0
    /\ last = "constructor"

NextDragger ==
    \/ \E e \in StartEvents : dragStart(e)
    \/ \E e \in MoveEvents : drag(e)
    \/ \E e \in EndEvents : dragEnd(e)

DragSpec == InitDragger /\ [][NextDragger]_vars

Init == InitEditor /\ InitNoDragger

Next ==
    \/ setup
    \/ \E g \in Glyphs : loadResolved(g)
    \/ loadRejected
    \/ \E g \in Glyphs : \E at \in {"glyph", "scale"} : loadResolvedThrows(g, at)
    \/ \E value \in SliderValues : onSliderInput(value)
    \/ onResetClick
    \/ onToggleClick
    \/ \E m \in MousePositions : onMouseDown(m)
    \/ \E m \in MousePositions : onMouseMove(m)
    \/ mouseup
    \/ mouseleave

Spec == Init /\ [][Next]_vars

\* The editor on a page whose size slider can also deliver 0: the listener
\* takes parseInt(e.target.value) as it comes.
SliderInputs == SliderValues \cup {0}

NextAnySlider ==
    \/ setup
    \/ \E g \in Glyphs : loadResolved(g)
    \/ loadRejected
    \/ \E g \in Glyphs : \E at \in {"glyph", "scale"} : loadResolvedThrows(g, at)
    \/ \E value \in SliderInputs : onSliderInput(value)
    \/ onResetClick
    \/ onToggleClick
    \/ \E m \in MousePositions : onMouseDown(m)
    \/ \E m \in MousePositions : onMouseMove(m)
    \/ mouseup
    \/ mouseleave

SliderSpec == Init /\ [][NextAnySlider]_vars

(***************************************************************************)
(* The claims.                                                             *)
(***************************************************************************)
\* A step that is one drag move of the main point of the command dragPoint names.
MainDragMove ==
    /\ last' = "mousemove"
    /\ moves' = moves + 1
    /\ dragPoint.pointType = "main"

\* The control points attached to the dragged main point moved by its delta.
AttachedFollow ==
    LET i == dragPoint.cmdIndex
        old == editableCommands[i]
        new == editableCommands'[i]
        dx == Sub(new.x, old.x)
        dy == Sub(new.y, old.y)
    IN  /\ has(old, "x2") =>
               /\ Sub(new.x2, old.x2) = dx
               /\ Sub(new.y2, old.y2) = dy
               /\ Sub(new.x2, new.x) = Sub(old.x2, old.x)
               /\ Sub(new.y2, new.y) = Sub(old.y2, old.y)
        /\ (i < Len(editableCommands) /\ has(editableCommands[i + 1], "x1")) =>
               /\ Sub(editableCommands'[i + 1].x1, editableCommands[i + 1].x1) = dx
               /\ Sub(editableCommands'[i + 1].y1, editableCommands[i + 1].y1) = dy

AtOriginal(cmd) ==
    /\ cmd.x = cmd.originalX /\ cmd.y = cmd.originalY
    /\ has(cmd, "x1") => cmd.x1 = cmd.originalX1 /\ cmd.y1 = cmd.originalY1
    /\ has(cmd, "x2") => cmd.x2 = cmd.originalX2 /\ cmd.y2 = cmd.originalY2

\* C2: whatever drags, slider inputs and toggles came before, resetGlyph leaves
\* every command with all its coordinates equal to its original* fields, which
\* are exactly the coordinates parseGlyphPath produced.
C2_ResetRestores ==
    last = "reset" =>
        /\ \A i \in 1..Len(editableCommands) : AtOriginal(editableCommands[i])
        /\ editableCommands = parseGlyphPath(originalPath.commands)

\* A reset in the middle of a drag that had moved points, in the co-moving copy.
C2_Witness ==
    /\ last = "reset"
    /\ build = "comove"
    /\ moves >= 2
    /\ isDragging
    /\ dragPoint.pointType = "main"
    /\ editableCommands = parseGlyphPath(originalPath.commands)

\* C3: after a failed font load the canvas shows the fallback message,
\* editableCommands is empty, no listener is registered, and no handler has run
\* since (the editor's state is as the catch block left it).
C3_FailedLoadIsFinal ==
    pc = "failed" =>
        /\ canvas.kind = "fallback"
        /\ editableCommands = <<>>
        /\ listeners = {}
        /\ last = "loadRejected"
        /\ ~isDragging /\ dragPoint = NULL /\ moves = 0
        /\ showControlPoints /\ glyphSize = 400

C3_Witness == pc = "failed" /\ canvas.kind = "fallback"

\* The points the commands carry, as findControlPoint names them.
AllPoints ==
    { p \in [cmdIndex : 1..Len(editableCommands), pointType : {"main", "cp1", "cp2"}] :
        LET cmd == editableCommands[p.cmdIndex]
        IN  \/ p.pointType = "main" /\ has(cmd, "x") /\ has(cmd, "y")
            \/ p.pointType = "cp1" /\ has(cmd, "x1") /\ has(cmd, "y1")
            \/ p.pointType = "cp2" /\ has(cmd, "x2") /\ has(cmd, "y2") }

\* The font-unit coordinates of point p.
Coords(p) ==
    LET cmd == editableCommands[p.cmdIndex]
    IN  IF p.pointType = "main" THEN <<cmd.x, cmd.y>>
        ELSE IF p.pointType = "cp1" THEN <<cmd.x1, cmd.y1>>
        ELSE <<cmd.x2, cmd.y2>>

\* The squared screen distance from mouse position m to point p.
ScreenDist2(m, p) ==
    LET sx == Add(offsetX, Mul(Coords(p)[1], scale))
        sy == Sub(offsetY, Mul(Coords(p)[2], scale))
        dx == Sub(N(m[1]), sx)
        dy == Sub(N(m[2]), sy)
    IN  Add(Mul(dx, dx), Mul(dy, dy))

Within(m, p) == Leq(ScreenDist2(m, p), Mul(controlPointRadius, controlPointRadius))

InRange(m) == {p \in AllPoints : Within(m, p)}

\* The position of point p in findControlPoint's scan.
ScanRank(p) ==
    3 * (p.cmdIndex - 1)
    + (IF p.pointType = "main" THEN 0 ELSE IF p.pointType = "cp1" THEN 1 ELSE 2)

Hit(m) == findControlPoint(N(m[1]), N(m[2]))

\* C4 as stated: when several points lie within controlPointRadius of the mouse,
\* findControlPoint returns the one nearest to the mouse (tried, in every state
\* a mousedown leaves, on every mouse position).
C4_ReturnsNearest ==
    last = "mousedown" =>
        \A m \in MousePositions :
            LET h == Hit(m)
            IN  h # NULL =>
                    \A q \in InRange(m) : Leq(ScreenDist2(m, h), ScreenDist2(m, q))

\* C4, amended: hit testing is first-match, not nearest: when several points lie
\* within controlPointRadius of the mouse, findControlPoint returns the one of
\* them that comes first in its scan (command order, then main, cp1, cp2),
\* whatever their distances.
C4_ReturnsFirstInRange ==
    last = "mousedown" =>
        \A m \in MousePositions :
            LET h == Hit(m)
            IN  h # NULL => /\ h \in InRange(m)
                            /\ \A q \in InRange(m) : ScanRank(h) <= ScanRank(q)

\* A mousedown picked a point although another point in range was nearer.
C4_Witness ==
    /\ last = "mousedown"
    /\ isDragging
    /\ \E m \in MousePositions :
           /\ Hit(m) = dragPoint
           /\ Cardinality(InRange(m)) >= 2
           /\ \E q \in InRange(m) : ~Leq(ScreenDist2(m, dragPoint), ScreenDist2(m, q))

\* C5: findControlPoint returns a point if and only if some main or control
\* point lies, on screen, within controlPointRadius of the mouse (the boundary
\* included), and a point it returns is a point of the commands within that
\* radius (tried, in every state a mouse handler leaves, on every mouse position).
C5_HitIffInRadius ==
    last \in {"mousedown", "mouseup"} =>
        \A m \in MousePositions :
            LET h == Hit(m)
            IN  /\ (h # NULL) <=> (\E p \in AllPoints : Within(m, p))
                /\ h # NULL => h \in AllPoints /\ Within(m, h)

\* A mousedown picked a point exactly controlPointRadius away, the only one in
\* range, while another mouse position hits nothing.
C5_Witness ==
    /\ last = "mousedown"
    /\ isDragging
    /\ \E m \in MousePositions :
           /\ Hit(m) = dragPoint
           /\ InRange(m) = {dragPoint}
           /\ ScreenDist2(m, dragPoint) = Mul(controlPointRadius, controlPointRadius)
    /\ \E m \in MousePositions : Hit(m) = NULL /\ InRange(m) = {}

\* C6 as stated: every editable command carries exactly the coordinate fields
\* its type requires, and a Z command has no main point to hit or drag.
C6_FieldsMirrorType ==
    /\ \A i \in 1..Len(editableCommands) :
           LET cmd == editableCommands[i]
           IN  /\ has(cmd, "x") <=> cmd.type \in {"M", "L", "C", "Q"}
               /\ has(cmd, "y") <=> cmd.type \in {"M", "L", "C", "Q"}
               /\ has(cmd, "x1") <=> cmd.type \in {"C", "Q"}
               /\ has(cmd, "y1") <=> cmd.type \in {"C", "Q"}
               /\ has(cmd, "x2") <=> cmd.type = "C"
               /\ has(cmd, "y2") <=> cmd.type = "C"
    /\ \A m \in MousePositions :
           LET h == Hit(m) IN h # NULL => editableCommands[h.cmdIndex].type # "Z"
    /\ dragPoint # NULL => editableCommands[dragPoint.cmdIndex].type # "Z"

\* Font-unit and screen points the transforms are tried on, besides the
\* mouse positions.
SamplePoints == {<<N(0), N(0)>>, <<N(16), N(32)>>, <<N(-7), <<5, 3>>>>,
                 <<<<1, 2>>, N(-40)>>}

TransformSamples ==
    SamplePoints \cup {<<N(m[1]), N(m[2])>> : m \in MousePositions}

\* C7: with a nonzero scale, inverseTransformPoint undoes transformPoint and
\* transformPoint undoes inverseTransformPoint, for every offset; X keeps its
\* direction and Y is flipped, both ways (tried, in every state a mouse move
\* or a slider input leaves, on the sample points and the mouse positions).
C7_TransformsInverse ==
    (scale # Zero /\ last \in {"mousemove", "input"}) =>
        \A p \in TransformSamples :
            LET t == transformPoint(p[1], p[2])
                u == inverseTransformPoint(p[1], p[2])
                up == transformPoint(p[1], Add(p[2], N(1)))
                right == transformPoint(Add(p[1], N(1)), p[2])
                down == inverseTransformPoint(p[1], Add(p[2], N(1)))
            IN  /\ inverseTransformPoint(t.x, t.y) = [x |-> p[1], y |-> p[2]]
                /\ transformPoint(u.x, u.y) = [x |-> p[1], y |-> p[2]]
                /\ Sub(t.y, up.y) = scale /\ up.x = t.x
                /\ Sub(right.x, t.x) = scale /\ right.y = t.y
                /\ Mul(Sub(u.y, down.y), scale) = N(1) /\ down.x = u.x

\* A drag move under a fractional scale put a point where the mouse is.
C7_Witness ==
    /\ last = "mousemove"
    /\ isDragging /\ dragPoint # NULL /\ moves >= 1
    /\ scale = <<2, 5>>
    /\ offsetX # Zero /\ offsetY # Zero
    /\ Coords(dragPoint) \notin {<<N(m[1]), N(m[2])>> : m \in MousePositions}
    /\ \E m \in MousePositions :
           transformPoint(Coords(dragPoint)[1], Coords(dragPoint)[2])
               = [x |-> N(m[1]), y |-> N(m[2])]

\* C8: parseGlyphPath leaves one editable command per source command, in the
\* same order and of the same type, with every coordinate the source defines
\* copied both to the coordinate field and to its original* shadow; the
\* source commands stay as the font library delivered them.
C8_ParseCopies ==
    /\ last = "loadResolved" =>
           LET src == originalPath.commands
           IN  /\ Len(editableCommands) = Len(src)
               /\ \A i \in 1..Len(src) :
                      LET c == src[i]
                          e == editableCommands[i]
                      IN  /\ e.type = c.type
                          /\ has(c, "x") => e.x = c.x /\ e.originalX = c.x
                          /\ has(c, "y") => e.y = c.y /\ e.originalY = c.y
                          /\ has(c, "x1") => has(e, "x1") /\ e.x1 = c.x1
                                             /\ e.originalX1 = c.x1
                          /\ has(c, "y1") => has(e, "y1") /\ e.y1 = c.y1
                                             /\ e.originalY1 = c.y1
                          /\ has(c, "x2") => has(e, "x2") /\ e.x2 = c.x2
                                             /\ e.originalX2 = c.x2
                          /\ has(c, "y2") => has(e, "y2") /\ e.y2 = c.y2
                                             /\ e.originalY2 = c.y2
    /\ pc = "ready" => glyph \in Glyphs

\* The glyph with all five command types has just been parsed.
C8_Witness ==
    /\ last = "loadResolved"
    /\ Len(editableCommands) = 4
    /\ editableCommands[2].originalX2 = N(24)
    /\ editableCommands[3].originalY1 = Zero

\* C9: once the editor is ready, after every handler the editor canvas shows
\* the current editableCommands, and so does the preview canvas of a copy that
\* has one; a preview never shows commands other than the current ones.
C9_PreviewIsLive ==
    pc = "ready" =>
        /\ canvas.kind = "glyph" /\ canvas.commands = editableCommands
        /\ previewCanvas => preview.kind = "glyph"
        /\ preview.kind = "glyph" => preview.commands = editableCommands

\* A drag move and a reset have both just been shown by the preview.
C9_Witness ==
    /\ previewCanvas
    /\ last = "mousemove" /\ moves >= 1
    /\ editableCommands # parseGlyphPath(originalPath.commands)
    /\ preview = [kind |-> "glyph", commands |-> editableCommands]
    /\ canvas.commands = editableCommands

\* C10 as stated: after every drag event handled while the element is being
\* dragged, its translation is the translation it had at the drag's start plus
\* the pointer's displacement since then.
C10_FollowsPointer ==
    (last = "drag" /\ dragger.isDragging) =>
        transform = <<grab.tx + (pointer[1] - grab.x), grab.ty + (pointer[2] - grab.y)>>

\* The part of the commands that is not a coordinate value: how many there are,
\* in which order, of which type, with which fields and which original* values.
Shape(cmds) ==
    [i \in 1..Len(cmds) |->
        [type |-> cmds[i].type,
         fields |-> DOMAIN cmds[i],
         originals |-> [f \in DOMAIN cmds[i] \cap
                              {"originalX", "originalY", "originalX1", "originalY1",
                               "originalX2", "originalY2"} |-> cmds[i][f]]]]

\* C11: once parseGlyphPath has run, the glyph stays the one loaded and the
\* commands keep the number, order, types and fields parseGlyphPath gave them
\* after every handler; only the values of x, y, x1, y1, x2, y2 differ.
C11_MutateInPlace ==
    pc = "ready" =>
        /\ glyph \in Glyphs
        /\ Shape(editableCommands) = Shape(parseGlyphPath(originalPath.commands))

\* Two drag moves and a reset later, with a coordinate still away from its
\* original.
C11_Witness ==
    /\ pc = "ready"
    /\ moves >= 2
    /\ last \in {"reset", "mousemove", "mouseleave", "input", "toggle"}
    /\ Len(editableCommands) = 4
    /\ \E i \in 1..4 : editableCommands[i].x # editableCommands[i].originalX

\* The handlers the listeners of setupControls and setupEventListeners call.
Handlers == {"input", "reset", "toggle", "mousedown", "mousemove", "mouseup",
             "mouseleave"}

\* C12: no slider, reset, toggle or canvas mouse handler runs before the font
\* has loaded and parseGlyphPath has completed: until then no listener is
\* registered, and whenever a handler has just run the editor is ready, with the
\* loaded glyph parsed into one command per path command.
C12_LoadPrecedesInteraction ==
    /\ pc # "ready" => listeners = {} /\ last \notin Handlers
    /\ last \in Handlers =>
           /\ pc = "ready"
           /\ glyph \in Glyphs
           /\ Len(editableCommands) = Len(originalPath.commands)

\* A mousedown handled after the load has started a drag.
C12_Witness ==
    /\ pc = "ready"
    /\ last = "mousedown"
    /\ isDragging
    /\ listeners = setupControls \cup setupEventListeners

\* The fields (j, f) of the commands whose value this step changes, a field
\* that appears or disappears included.
ChangedFields ==
    { jf \in (1..Len(editableCommands)) \X
              {"type", "x", "y", "x1", "y1", "x2", "y2", "originalX", "originalY",
               "originalX1", "originalY1", "originalX2", "originalY2"} :
        LET old == editableCommands[jf[1]]
            new == editableCommands'[jf[1]]
        IN  \/ has(old, jf[2]) # has(new, jf[2])
            \/ has(old, jf[2]) /\ has(new, jf[2]) /\ old[jf[2]] # new[jf[2]] }

\* C13: in the co-moving copy, one drag move of the main point of command i
\* changes nothing but x, y, x2, y2 of command i and x1, y1 of command i + 1;
\* the list keeps its length, and for the last command there is no command
\* i + 1, so nothing but its own x, y, x2, y2 changes.
C13_CoMoveFrame ==
    [][(MainDragMove /\ build = "comove") =>
          /\ Len(editableCommands') = Len(editableCommands)
          /\ ChangedFields \subseteq
                 ({dragPoint.cmdIndex} \X {"x", "y", "x2", "y2"})
                 \cup ({dragPoint.cmdIndex + 1} \X {"x1", "y1"})]_vars

\* The main point of the C command was dragged in the co-moving copy: its own
\* x2 and the next command's x1 went along, its own x1, the M before it and the
\* Z at the end stayed.
C13_Witness ==
    /\ build = "comove"
    /\ last = "mousemove"
    /\ isDragging
    /\ dragPoint = [cmdIndex |-> 2, pointType |-> "main"]
    /\ Len(editableCommands) = 4
    /\ LET c == editableCommands[2]
       IN  /\ c.x # c.originalX \/ c.y # c.originalY
           /\ c.x2 # c.originalX2 \/ c.y2 # c.originalY2
           /\ c.x1 = c.originalX1 /\ c.y1 = c.originalY1
           /\ editableCommands[3].x1 # editableCommands[3].originalX1
              \/ editableCommands[3].y1 # editableCommands[3].originalY1
           /\ editableCommands[3].x = editableCommands[3].originalX
           /\ AtOriginal(editableCommands[1])
           /\ AtOriginal(editableCommands[4])

\* A step that is one drag move of a control point.
ControlDragMove ==
    /\ last' = "mousemove"
    /\ moves' = moves + 1
    /\ dragPoint.pointType \in {"cp1", "cp2"}

\* C14: a drag move of a control point changes the two coordinates of that
\* control point on that command and nothing else: no other coordinate of any
\* command, no original* field, no type, and the list keeps its length.
C14_ControlDragFrame ==
    [][ControlDragMove =>
          /\ Len(editableCommands') = Len(editableCommands)
          /\ ChangedFields \subseteq
                 {dragPoint.cmdIndex} \X
                     (IF dragPoint.pointType = "cp1" THEN {"x1", "y1"} ELSE {"x2", "y2"})]_vars

\* A control point of a command that has two was dragged away and is the only
\* coordinate away from its original.
C14_Witness ==
    /\ last = "mousemove"
    /\ isDragging
    /\ dragPoint.pointType \in {"cp1", "cp2"}
    /\ LET i == dragPoint.cmdIndex
           c == editableCommands[i]
       IN  /\ has(c, "x1") /\ has(c, "x2")
           /\ Coords(dragPoint) # (IF dragPoint.pointType = "cp1"
                                   THEN <<c.originalX1, c.originalY1>>
                                   ELSE <<c.originalX2, c.originalY2>>)
           /\ c.x = c.originalX /\ c.y = c.originalY
           /\ IF dragPoint.pointType = "cp1"
              THEN c.x2 = c.originalX2 /\ c.y2 = c.originalY2
              ELSE c.x1 = c.originalX1 /\ c.y1 = c.originalY1
           /\ \A j \in 1..Len(editableCommands) :
                  j # i => AtOriginal(editableCommands[j])

\* The font-unit coordinates point p had when parseGlyphPath had run.
OriginalCoords(p) ==
    LET cmd == editableCommands[p.cmdIndex]
    IN  IF p.pointType = "main" THEN <<cmd.originalX, cmd.originalY>>
        ELSE IF p.pointType = "cp1" THEN <<cmd.originalX1, cmd.originalY1>>
        ELSE <<cmd.originalX2, cmd.originalY2>>

C16_TargetFixed ==
    [][/\ (last' = "mousedown" /\ showControlPoints /\ dragPoint' # NULL) =>
              /\ isDragging'
              /\ \E m \in MousePositions : dragPoint' = Hit(m)
       /\ (isDragging /\ dragPoint # NULL /\ last' \notin {"mouseup", "mouseleave"}) =>
              dragPoint' = dragPoint]_vars

\* C17: a mouseup or a mouseleave leaves isDragging false and dragPoint null,
\* whatever the state before; while isDragging is false a mouse move changes no
\* command, and isDragging becomes true again only by a mousedown that found a
\* point.
C17_MouseUpEndsDrag ==
    [][/\ last' \in {"mouseup", "mouseleave"} => ~isDragging' /\ dragPoint' = NULL
       /\ (~isDragging /\ last' = "mousemove") =>
              editableCommands' = editableCommands /\ ~isDragging'
       /\ (~isDragging /\ isDragging') => last' = "mousedown" /\ dragPoint' # NULL]_vars

\* A drag that had moved a point was ended by a mouseleave, and the mouse then
\* moved over a point without moving anything.
C17_Witness ==
    /\ last = "mousemove"
    /\ mouseAt = NoMouse
    /\ moves >= 1
    /\ ~isDragging /\ dragPoint = NULL
    /\ cursor = "grab"
    /\ editableCommands # parseGlyphPath(originalPath.commands)

\* C18: once the glyph is parsed, a step changes a command only if it is a mouse
\* move handled while isDragging is true and dragPoint is set, or a reset;
\* mousedown, mouseup, mouseleave, slider input, toggle and hover moves leave
\* editableCommands as it was.
C18_OnlyDragAndReset ==
    [][(pc = "ready" /\ editableCommands' # editableCommands) =>
          \/ last' = "mousemove" /\ isDragging /\ dragPoint # NULL /\ mouseAt' # NoMouse
          \/ last' = "reset"]_vars

\* In the middle of a drag that has moved a point, the controls were toggled
\* and the moved coordinates are still there.
C18_Witness ==
    /\ last = "toggle"
    /\ isDragging /\ dragPoint # NULL
    /\ moves >= 1
    /\ Coords(dragPoint) # OriginalCoords(dragPoint)

\* C19: a reset leaves isDragging, dragPoint, scale, offsetX, offsetY,
\* showControlPoints and glyphSize as they were, and of the commands it changes
\* coordinate values only (types, fields and original* values stay), so a drag
\* in progress is still in progress after it.
C19_ResetFrame ==
    [][last' = "reset" =>
          /\ UNCHANGED <<isDragging, dragPoint, scale, offsetX, offsetY,
                         showControlPoints, glyphSize, glyph, listeners, cursor>>
          /\ Shape(editableCommands') = Shape(editableCommands)]_vars

\* A reset in the middle of a drag, after a slider input and with the controls
\* hidden: the drag is still on and the point is back at its original.
C19_Witness ==
    /\ last = "reset"
    /\ isDragging /\ dragPoint # NULL
    /\ moves >= 1
    /\ scale = <<1, 2>>
    /\ ~showControlPoints
    /\ Coords(dragPoint) = OriginalCoords(dragPoint)

\* C20: the element's translation changes only in a drag event handled while
\* the dragger's isDragging is true; isDragging becomes true only in a dragStart
\* whose target is the element itself (the start the ghost grab records, which
\* also puts the class on); every dragEnd leaves it false; and the element has
\* the class 'dragging' exactly when isDragging is true.
C20_DragFlag ==
    [][/\ transform' # transform => dragger.isDragging /\ last' = "drag"
       /\ (~dragger.isDragging /\ dragger'.isDragging) =>
              /\ last' = "dragStart"
              /\ grab' = [x |-> pointer'[1], y |-> pointer'[2],
                          tx |-> transform[1], ty |-> transform[2]]
       /\ last' = "dragEnd" => ~dragger'.isDragging
       /\ ("dragging" \in classList) <=> dragger.isDragging
       /\ ("dragging" \in classList') <=> dragger'.isDragging]_vars

\* After a drag that had moved the element was over, a move with the pointer
\* somewhere else left the element where it was, without the class.
C20_Witness ==
    /\ last = "drag"
    /\ events = MaxEvents
    /\ ~dragger.isDragging
    /\ "dragging" \notin classList
    /\ transform \notin InitialTransforms
    /\ pointer # <<grab.x + (transform[1] - grab.tx), grab.y + (transform[2] - grab.ty)>>

\* The lowest index of a command with a point within the radius of m.
FirstCmdInRange(m) ==
    CHOOSE i \in {p.cmdIndex : p \in InRange(m)} :
        \A p \in InRange(m) : i <= p.cmdIndex

\* C21: when points lie within controlPointRadius of the mouse, findControlPoint
\* returns a point of the command with the lowest index that has one in range,
\* and of that command its main point if in range, else its cp1 if in range,
\* else its cp2 (tried, in every state a mousedown leaves, on every mouse
\* position).
C21_FirstInScanOrder ==
    last = "mousedown" =>
        \A m \in MousePositions :
            InRange(m) # {} =>
                LET h == Hit(m)
                    i == FirstCmdInRange(m)
                IN  /\ h.cmdIndex = i
                    /\ h.pointType =
                           IF [cmdIndex |-> i, pointType |-> "main"] \in InRange(m)
                           THEN "main"
                           ELSE IF [cmdIndex |-> i, pointType |-> "cp1"] \in InRange(m)
                           THEN "cp1"
                           ELSE "cp2"

\* A mousedown picked a point while a point of a later command and another
\* point of the same command were in range too.
C21_Witness ==
    /\ last = "mousedown"
    /\ isDragging /\ dragPoint # NULL
    /\ \E m \in MousePositions :
           /\ Hit(m) = dragPoint
           /\ \E q \in InRange(m) : q.cmdIndex > dragPoint.cmdIndex
           /\ \E q \in InRange(m) : /\ q.cmdIndex = dragPoint.cmdIndex
                                     /\ q.pointType # dragPoint.pointType

\* C22 as stated: in every reachable state, isDragging implies that dragPoint
\* is not null.
C22_DraggingHasPoint == isDragging => dragPoint # NULL

\* C23 as stated: a mouse move handled while showControlPoints is false changes
\* no command, also when the controls were switched off during a drag.
C23_EditOnlyWhenShown ==
    [][(last' = "mousemove" /\ ~showControlPoints) =>
          editableCommands' = editableCommands]_vars

OriginalFields == {"originalX", "originalY", "originalX1", "originalY1",
                   "originalX2", "originalY2"}

\* C24: once parseGlyphPath has run, no step (drag move with or without
\* co-movement, reset, slider input, toggle, mousedown, mouseup, mouseleave)
\* changes, adds or removes an original* field of any command.
C24_ShadowsFrozen ==
    [][pc = "ready" =>
          /\ Len(editableCommands') = Len(editableCommands)
          /\ \A i \in 1..Len(editableCommands) : \A f \in OriginalFields :
                 /\ has(editableCommands'[i], f) <=> has(editableCommands[i], f)
                 /\ has(editableCommands[i], f) =>
                        editableCommands'[i][f] = editableCommands[i][f]]_vars

\* After two drag moves in the co-moving copy the C command's second control
\* point and the Q command's first are away from their shadows, which still
\* hold the font's values.
C24_Witness ==
    /\ build = "comove"
    /\ moves = 2
    /\ Len(editableCommands) = 4
    /\ editableCommands[2].x2 # editableCommands[2].originalX2
    /\ editableCommands[3].x1 # editableCommands[3].originalX1
    /\ editableCommands[2].originalX2 = N(24)
    /\ editableCommands[2].originalY2 = N(32)
    /\ editableCommands[3].originalX1 = N(32)
    /\ editableCommands[3].originalY1 = N(0)

\* C25 as stated: scale is not zero in any state in which a drag move can be
\* handled, and the point a drag move has just moved has finite coordinates.
C25_ScaleNonzero ==
    /\ (pc = "ready" /\ isDragging /\ dragPoint # NULL) => scale # Zero
    /\ (last = "mousemove" /\ mouseAt # NoMouse) =>
           isFinite(Coords(dragPoint)[1]) /\ isFinite(Coords(dragPoint)[2])

====
